---- MODULE Spec2Model ----
(***************************************************************************)
(* A model of train_model.py of graph-nvp: the training entry point        *)
(* train() and the optimisation step MolNvpUpdater.update_core, together   *)
(* with the behaviour of the chainer collaborators they drive (the serial  *)
(* iterator, the trainer loop, its interval triggers and the snapshot      *)
(* extension).  One run of train() is a sequential program; pc is its      *)
(* position.                                                               *)
(***************************************************************************)
EXTENDS Integers, Sequences, FiniteSets, TLC

\* ------------------------------------------------------------------ bounds
DatasetLen == 3      \* number of records in the dataset file
MaxValid == 1        \* longest list get_val_ids() returns in the model
MaxBatch == 2        \* largest --batch_size
MaxEpochs == 2       \* largest --max_epochs, --save_epochs and snapshot epoch
NCoords == 2         \* entries of the flattened (x, adj) tensor
NLayers == 3         \* coupling layers in the stack
Precision == 1024    \* fixed-point steps per unit: the arithmetic's resolution

\* ------------------------------------------------------------------ values
\* A float: finite (a rational n/d, d > 0), NaN or +infinity.
Fin(n, d) == [k |-> "fin", n |-> n, d |-> d]
NaN == [k |-> "nan", n |-> 0, d |-> 1]
Inf == [k |-> "inf", n |-> 0, d |-> 1]
None == [k |-> "none", n |-> 0, d |-> 1]

IsFinite(a) == a.k = "fin"

\* a + b
FAdd(a, b) ==
    IF a.k = "nan" \/ b.k = "nan" THEN NaN
    ELSE IF a.k = "inf" \/ b.k = "inf" THEN Inf
    ELSE Fin(a.n * b.d + b.n * a.d, a.d * b.d)

\* a * b, b finite and positive
FMul(a, b) ==
    IF a.k = "fin" THEN Fin(a.n * b.n, a.d * b.d) ELSE a

\* a / b, b finite and positive
FDiv(a, b) ==
    IF a.k = "fin" THEN Fin(a.n * b.d, a.d * b.n) ELSE a

\* a == b as Python compares floats (NaN equals nothing)
FEq(a, b) ==
    \/ a.k = "inf" /\ b.k = "inf"
    \/ a.k = "fin" /\ b.k = "fin" /\ a.n * b.d = b.n * a.d

\* ------------------------------------------------------------------ helpers
Range(s) == {s[i] : i \in DOMAIN s}

InjectiveSeqs(S, maxlen) ==
    UNION {{s \in [1..m -> S] : \A i, j \in 1..m : i # j => s[i] # s[j]} : m \in 0..maxlen}

Perms(S) == {s \in [1..Cardinality(S) -> S] : Range(s) = S}

\* [t for t in range(n) if t not in valid]
RECURSIVE Complement(_, _, _)
Complement(t, n, valid) ==
    IF t >= n THEN <<>>
    ELSE (IF t \in Range(valid) THEN <<>> ELSE <<t>>) \o Complement(t + 1, n, valid)

SubsetsOfSize(S, m) == {T \in SUBSET S : Cardinality(T) = m}

VARIABLES
    args,            \* the parsed command line
    world,           \* what the collaborators hold: file sizes, id lists, the snapshot
    pc,              \* position in train() / Trainer.run() / update_core()
    transform_fn,    \* the local transform_fn of train(), "unbound" until assigned
    valid_idx,       \* the local valid_idx of train()
    dataset_loaded,  \* NumpyTupleDataset.load has read the file
    train_set,       \* the train SubDataset: sequence of dataset indices
    test_set,        \* the test SubDataset
    model_built,     \* GraphNvpModel(model_params) has been constructed
    save_dir,        \* args.save_dir exists
    hyper_written,   \* graphnvp-params.json has been written
    save_epochs,     \* the local save_epochs of train()
    params,          \* the model parameters
    grads,           \* the parameters' gradients
    iteration,       \* updater.iteration
    epoch,           \* train_iter.epoch
    position,        \* train_iter.current_position
    is_new_epoch,    \* train_iter.is_new_epoch
    remaining,       \* positions of the current shuffled order not drawn yet
    stop_prev,       \* stop trigger's _previous_epoch_detail (in examples)
    snap_prev,       \* snapshot trigger's _previous_epoch_detail (in examples)
    batch,           \* update_core's batch: the dataset indices in it
    z,               \* update_core's forward result
    nll,             \* update_core's nll
    loss,            \* update_core's loss
    observation,     \* trainer.observation: records reported this iteration
    snapshots,       \* snapshot files written by this run, in order
    final_file,      \* writes of graph-nvp-final.npz, in order
    snapshot_read,   \* load_npz has read args.load_snapshot
    trace,           \* steps taken by the current update_core call
    calls,           \* update_core calls started in this run
    pre_params,      \* the parameters when the current call started
    flow_pc,         \* position of a forward-then-inverse pass of the flow
    flow_x0,         \* the data tensor the pass started from
    flow_h,          \* the tensor as transformed so far
    flow_layer,      \* the coupling layer to apply (or to undo) next
    flow_net,        \* the layers' sub-network weights
    flow_additive    \* hyperparameter additive_transformations

trainVars == <<args, world, pc, transform_fn, valid_idx, dataset_loaded, train_set,
          test_set, model_built, save_dir, hyper_written, save_epochs, params,
          grads, iteration, epoch, position, is_new_epoch, remaining, stop_prev,
          snap_prev, batch, z, nll, loss, observation, snapshots, final_file,
          snapshot_read, trace, calls, pre_params>>

setupVars == <<transform_fn, valid_idx, dataset_loaded, train_set, test_set,
               model_built, save_dir, hyper_written, save_epochs>>
iterVars == <<epoch, position, is_new_epoch, remaining>>
trigVars == <<stop_prev, snap_prev>>
coreVars == <<batch, z, nll, loss, observation>>
fileVars == <<snapshots, final_file, snapshot_read>>
ghostVars == <<trace, calls, pre_params>>
flowVars == <<flow_pc, flow_x0, flow_h, flow_layer, flow_net, flow_additive>>
vars == <<trainVars, flowVars>>

\* ------------------------------------------------------------------ inputs
DataNames == {"qm9", "zinc250k", "mnist"}

FreshParams == [ver |-> 0, finite |-> TRUE]
NoGrads == [state |-> "none", finite |-> TRUE, at |-> 0]
NoBatch == {}
NoZ == [ver |-> 0 - 1, batch |-> {}, ldj_x |-> TRUE, ldj_adj |-> TRUE]
NoNll == <<None, None>>

\* int(len(dataset) * 0.8)
RandomSplitSize(len) == (len * 8) \div 10

\* The size of the train subset that train() will build for these inputs.
NTrainOf(len, val_ids) ==
    IF Len(val_ids) > 0 THEN len - Len(val_ids) ELSE RandomSplitSize(len)

ArgsSpace ==
    [data_name : DataNames,
     batch_size : 1..MaxBatch,
     max_epochs : 1..MaxEpochs,
     save_epochs : {0 - 1} \cup 1..MaxEpochs,
     load_params : {0, 1},
     load_snapshot : 1..MaxEpochs]

WorldSpace ==
    [dataset_len : {DatasetLen},
     val_ids : InjectiveSeqs(0..(DatasetLen - 1), MaxValid)]

\* The inputs of a run: a batch is no larger than the train subset, the
\* snapshot path matters only to a resumed run, and a run with an unknown
\* dataset name never reads the other options.
ValidInputs(a, w) ==
    /\ a.batch_size <= NTrainOf(w.dataset_len, w.val_ids)
    /\ a.load_params # 1 => a.load_snapshot = 1
    /\ a.data_name = "mnist" =>
          /\ a.batch_size = 1 /\ a.max_epochs = 1 /\ a.save_epochs = 0 - 1
          /\ a.load_params = 0 /\ w.val_ids = <<>>

Init ==
    /\ args \in ArgsSpace
    /\ world \in WorldSpace
    /\ ValidInputs(args, world)
    /\ pc = "select"
    /\ transform_fn = "unbound"
    /\ valid_idx = <<>>
    /\ dataset_loaded = FALSE
    /\ train_set = <<>>
    /\ test_set = <<>>
    /\ model_built = FALSE
    /\ save_dir = FALSE
    /\ hyper_written = FALSE
    /\ save_epochs = 0
    /\ params = FreshParams
    /\ grads = NoGrads
    /\ iteration = 0
    /\ epoch = 0
    /\ position = 0
    /\ is_new_epoch = FALSE
    /\ remaining = {}
    /\ stop_prev = 0
    /\ snap_prev = 0
    /\ batch = NoBatch
    /\ z = NoZ
    /\ nll = NoNll
    /\ loss = None
    /\ observation = <<>>
    /\ snapshots = <<>>
    /\ final_file = <<>>
    /\ snapshot_read = FALSE
    /\ trace = <<>>
    /\ calls = 0
    /\ pre_params = FreshParams
    /\ flow_pc = "idle"
    /\ flow_x0 = <<>>
    /\ flow_h = <<>>
    /\ flow_layer = 0
    /\ flow_net = <<>>
    /\ flow_additive = FALSE

\* ------------------------------------------------------------------ train(): setup
\* lines 72-84: the dataset-name switch; no branch for any other name
SelectDataset ==
    /\ pc = "select"
    /\ IF args.data_name = "qm9"
         THEN transform_fn' = "transform_qm9" /\ valid_idx' = world.val_ids
         ELSE IF args.data_name = "zinc250k"
         THEN transform_fn' = "transform_zinc250k" /\ valid_idx' = world.val_ids
         ELSE UNCHANGED <<transform_fn, valid_idx>>
    /\ pc' = "load"
    /\ UNCHANGED <<args, world, dataset_loaded, train_set, test_set, model_built,
                   save_dir, hyper_written, save_epochs, params, grads, iteration>>
    /\ UNCHANGED <<iterVars, trigVars, coreVars, fileVars, ghostVars>>
    /\ UNCHANGED flowVars

\* line 86: NumpyTupleDataset.load
LoadDataset ==
    /\ pc = "load"
    /\ dataset_loaded' = TRUE
    /\ pc' = "transform"
    /\ UNCHANGED <<args, world, transform_fn, valid_idx, train_set, test_set,
                   model_built, save_dir, hyper_written, save_epochs, params, grads,
                   iteration>>
    /\ UNCHANGED <<iterVars, trigVars, coreVars, fileVars, ghostVars>>
    /\ UNCHANGED flowVars

\* line 87: TransformDataset(dataset, transform_fn); reading the unbound local raises
WrapDataset ==
    /\ pc = "transform"
    /\ pc' = IF transform_fn = "unbound" THEN "failed" ELSE "split"
    /\ UNCHANGED <<args, world, setupVars, params, grads, iteration>>
    /\ UNCHANGED <<iterVars, trigVars, coreVars, fileVars, ghostVars>>
    /\ UNCHANGED flowVars

\* the split with the validation indices put first in the order
SplitDataset_ValidFirst ==
    /\ pc = "split"
    /\ IF Len(valid_idx) > 0
         THEN LET train_idx == Complement(0, world.dataset_len, valid_idx)
                  n_train == Len(train_idx)
                  order == valid_idx \o train_idx
              IN /\ train_set' = SubSeq(order, 1, n_train)
                 /\ test_set' = SubSeq(order, n_train + 1, Len(order))
         ELSE \E order \in Perms(0..(world.dataset_len - 1)) :
                 LET n_train == RandomSplitSize(world.dataset_len)
                 IN /\ train_set' = SubSeq(order, 1, n_train)
                    /\ test_set' = SubSeq(order, n_train + 1, Len(order))
    /\ pc' = "build"
    /\ UNCHANGED <<args, world, transform_fn, valid_idx, dataset_loaded, model_built,
                   save_dir, hyper_written, save_epochs, params, grads, iteration>>
    /\ UNCHANGED <<iterVars, trigVars, coreVars, fileVars, ghostVars>>
    /\ UNCHANGED flowVars

\* lines 89-95: the train/test split
SplitDataset ==
    /\ pc = "split"
    /\ IF Len(valid_idx) > 0
         THEN LET train_idx == Complement(0, world.dataset_len, valid_idx)
                  n_train == Len(train_idx)
                  order == train_idx \o valid_idx
              IN /\ train_set' = SubSeq(order, 1, n_train)
                 /\ test_set' = SubSeq(order, n_train + 1, Len(order))
         ELSE \E order \in Perms(0..(world.dataset_len - 1)) :
                 LET n_train == RandomSplitSize(world.dataset_len)
                 IN /\ train_set' = SubSeq(order, 1, n_train)
                    /\ test_set' = SubSeq(order, n_train + 1, Len(order))
    /\ pc' = "build"
    /\ UNCHANGED <<args, world, transform_fn, valid_idx, dataset_loaded, model_built,
                   save_dir, hyper_written, save_epochs, params, grads, iteration>>
    /\ UNCHANGED <<iterVars, trigVars, coreVars, fileVars, ghostVars>>
    /\ UNCHANGED flowVars

\* lines 97-110: the serial iterator over train, and the model
BuildModel ==
    /\ pc = "build"
    /\ epoch' = 0
    /\ position' = 0
    /\ is_new_epoch' = FALSE
    /\ remaining' = 1..Len(train_set)
    /\ model_built' = TRUE
    /\ params' = FreshParams
    /\ pc' = "makedirs"
    /\ UNCHANGED <<args, world, transform_fn, valid_idx, dataset_loaded, train_set,
                   test_set, save_dir, hyper_written, save_epochs, grads, iteration>>
    /\ UNCHANGED <<trigVars, coreVars, fileVars, ghostVars>>
    /\ UNCHANGED flowVars

\* line 122
MakeSaveDir ==
    /\ pc = "makedirs"
    /\ save_dir' = TRUE
    /\ pc' = "save_hyperparams"
    /\ UNCHANGED <<args, world, transform_fn, valid_idx, dataset_loaded, train_set,
                   test_set, model_built, hyper_written, save_epochs, params, grads,
                   iteration>>
    /\ UNCHANGED <<iterVars, trigVars, coreVars, fileVars, ghostVars>>
    /\ UNCHANGED flowVars

\* line 123
SaveHyperparams ==
    /\ pc = "save_hyperparams"
    /\ hyper_written' = TRUE
    /\ pc' = "setup_trainer"
    /\ UNCHANGED <<args, world, transform_fn, valid_idx, dataset_loaded, train_set,
                   test_set, model_built, save_dir, save_epochs, params, grads,
                   iteration>>
    /\ UNCHANGED <<iterVars, trigVars, coreVars, fileVars, ghostVars>>
    /\ UNCHANGED flowVars

\* save_epochs == -1 read as "every epoch"
NormalisedSaveEpochs_EveryEpoch(a) ==
    IF a.save_epochs = 0 - 1 THEN 1 ELSE a.save_epochs

\* lines 144-146
NormalisedSaveEpochs(a) ==
    IF a.save_epochs = 0 - 1 THEN a.max_epochs ELSE a.save_epochs

\* lines 125-154: optimizer, updater, trainer and its extensions
SetupTrainer ==
    /\ pc = "setup_trainer"
    /\ save_epochs' = NormalisedSaveEpochs(args)
    /\ grads' = NoGrads
    /\ iteration' = 0
    /\ stop_prev' = 0
    /\ snap_prev' = 0
    /\ pc' = "load_params"
    /\ UNCHANGED <<args, world, transform_fn, valid_idx, dataset_loaded, train_set,
                   test_set, model_built, save_dir, hyper_written, params>>
    /\ UNCHANGED <<iterVars, coreVars, fileVars, ghostVars>>
    /\ UNCHANGED flowVars

\* ------------------------------------------------------------------ collaborators
\* updater.epoch_detail = epoch + current_position / len(train), counted in examples
EpochDetail == epoch * Len(train_set) + position

\* IntervalTrigger(period, 'epoch'):
\*   previous_epoch_detail // period != epoch_detail // period
Fires(prev, cur, period) ==
    (prev \div (Len(train_set) * period)) # (cur \div (Len(train_set) * period))

\* The trainer state held by the file args.load_snapshot: the snapshot that a
\* run over the same train subset and batch size wrote on completing epoch e.
SnapshotAt(e) ==
    LET n == Len(train_set)
        b == args.batch_size
        it == (e * n + b - 1) \div b
    IN [epoch |-> e,
        iteration |-> it,
        position |-> it * b - e * n,
        is_new_epoch |-> TRUE,
        params |-> [ver |-> it, finite |-> TRUE],
        stop_prev |-> (it - 1) * b,
        snap_prev |-> it * b]

\* The trainer state that extensions.snapshot() serialises now.
TrainerState(snap_prev_now) ==
    [epoch |-> epoch,
     iteration |-> iteration,
     position |-> position,
     is_new_epoch |-> is_new_epoch,
     params |-> params,
     stop_prev |-> stop_prev,
     snap_prev |-> snap_prev_now,
     step |-> trace,          \* the steps of the update_core call before the write
     calls |-> calls]         \* update_core calls made before the write

\* optimizer.update(): one step on every parameter that has a gradient
OptimizerUpdate(p, g) ==
    IF g.state \in {"computed", "accumulated"}
      THEN [ver |-> p.ver + 1, finite |-> p.finite /\ g.finite]
      ELSE p

\* ------------------------------------------------------------------ train(): resume
\* the snapshot loaded into the model alone: the trainer's counters stay
LoadParams_ModelOnly ==
    /\ pc = "load_params"
    /\ IF args.load_params = 1
         THEN /\ snapshot_read' = TRUE
              /\ params' = SnapshotAt(args.load_snapshot).params
         ELSE UNCHANGED <<snapshot_read, params>>
    /\ pc' = "stop_check"
    /\ UNCHANGED <<args, world, setupVars, grads, iteration, iterVars, trigVars,
                   coreVars, snapshots, final_file, ghostVars>>
    /\ UNCHANGED flowVars

\* lines 155-156
LoadParams ==
    /\ pc = "load_params"
    /\ IF args.load_params = 1
         THEN LET s == SnapshotAt(args.load_snapshot)
              IN /\ snapshot_read' = TRUE
                 /\ params' = s.params
                 /\ iteration' = s.iteration
                 /\ epoch' = s.epoch
                 /\ position' = s.position
                 /\ is_new_epoch' = s.is_new_epoch
                 /\ remaining' \in SubsetsOfSize(1..Len(train_set),
                                                 Len(train_set) - s.position)
                 /\ stop_prev' = s.stop_prev
                 /\ snap_prev' = s.snap_prev
         ELSE UNCHANGED <<snapshot_read, params, iteration, iterVars, trigVars>>
    /\ pc' = "stop_check"
    /\ UNCHANGED <<args, world, setupVars, grads, coreVars, snapshots, final_file,
                   ghostVars>>
    /\ UNCHANGED flowVars

\* ------------------------------------------------------------------ Trainer.run()
\* line 157, line 128: while not stop_trigger(trainer)
StopCheck ==
    /\ pc = "stop_check"
    /\ stop_prev' = EpochDetail
    /\ IF Fires(stop_prev, EpochDetail, args.max_epochs)
         THEN pc' = "final_save" /\ UNCHANGED observation
         ELSE pc' = "uc_next" /\ observation' = <<>>
    /\ UNCHANGED <<args, world, setupVars, params, grads, iteration, iterVars,
                   snap_prev, batch, z, nll, loss, fileVars, ghostVars>>
    /\ UNCHANGED flowVars

\* ------------------------------------------------------------------ update_core
two_step == TRUE

\* a weight of 2 on the adjacency term
alpha_two == Fin(2, 1)

alpha == Fin(1, 1)

\* lines 42-45: self._iterators['main'].next() and the converter
UcNext ==
    /\ pc = "uc_next"
    /\ LET n == Len(train_set)
           i_end == position + args.batch_size
       IN IF i_end < n
            THEN \E drawn \in SubsetsOfSize(remaining, args.batch_size) :
                    /\ batch' = {train_set[p] : p \in drawn}
                    /\ remaining' = remaining \ drawn
                    /\ position' = i_end
                    /\ is_new_epoch' = FALSE
                    /\ UNCHANGED epoch
            ELSE \E drawn \in SubsetsOfSize(1..n, i_end - n) :
                    /\ batch' = {train_set[p] : p \in remaining \cup drawn}
                    /\ remaining' = (1..n) \ drawn
                    /\ position' = i_end - n
                    /\ is_new_epoch' = TRUE
                    /\ epoch' = epoch + 1
    /\ calls' = calls + 1
    /\ trace' = <<"next">>
    /\ pre_params' = params
    /\ pc' = "uc_forward"
    /\ UNCHANGED <<args, world, setupVars, params, grads, iteration, trigVars,
                   z, nll, loss, observation, fileVars>>
    /\ UNCHANGED flowVars

\* line 46: z, sum_log_det_jacs = self.model(adj, x)
UcForward ==
    /\ pc = "uc_forward"
    /\ \E fx, fadj \in BOOLEAN :
          /\ ~params.finite => ~fx /\ ~fadj
          /\ z' = [ver |-> params.ver, batch |-> batch, ldj_x |-> fx, ldj_adj |-> fadj]
    /\ trace' = Append(trace, "forward")
    /\ pc' = "uc_log_prob"
    /\ UNCHANGED <<args, world, setupVars, params, grads, iteration, iterVars,
                   trigVars, batch, nll, loss, observation, fileVars, calls,
                   pre_params>>
    /\ UNCHANGED flowVars

\* lines 47-48: nll = self.model.log_prob(z, sum_log_det_jacs)
UcLogProb ==
    /\ pc = "uc_log_prob"
    /\ \E nx \in IF z.ldj_x THEN {Fin(1, 1), Fin(2, 1)} ELSE {NaN},
          nadj \in IF z.ldj_adj THEN {Fin(1, 1), Fin(3, 1)} ELSE {Inf} :
          nll' = <<nx, nadj>>
    /\ trace' = Append(trace, "log_prob")
    /\ pc' = "uc_report"
    /\ UNCHANGED <<args, world, setupVars, params, grads, iteration, iterVars,
                   trigVars, batch, z, loss, observation, fileVars, calls,
                   pre_params>>
    /\ UNCHANGED flowVars

\* the two-term loss reported without its two terms
UcReport_LossOnly ==
    /\ pc = "uc_report"
    /\ LET l == FDiv(FAdd(nll[1], FMul(nll[2], Fin(1, 1))), Fin(2, 1))
       IN /\ loss' = <<l>>
          /\ observation' = Append(observation,
                 [values |-> [k \in {"log_likelihood"} |-> l], ver |-> z.ver])
    /\ trace' = Append(trace, "report")
    /\ pc' = "uc_cleargrads"
    /\ UNCHANGED <<args, world, setupVars, params, grads, iteration, iterVars,
                   trigVars, batch, z, nll, fileVars, calls, pre_params>>
    /\ UNCHANGED flowVars

\* lines 49-56: the loss and chainer.reporter.report.  In the single-term
\* branch the loss is nll itself, reported alone under log_likelihood.
UcReport ==
    /\ pc = "uc_report"
    /\ IF two_step
         THEN LET l == FDiv(FAdd(nll[1], FMul(nll[2], alpha)), FAdd(Fin(1, 1), alpha))
              IN /\ loss' = <<l>>
                 /\ observation' = Append(observation,
                        [values |-> [k \in {"log_likelihood", "nll_x", "nll_adj"} |->
                                       IF k = "log_likelihood" THEN l
                                       ELSE IF k = "nll_x" THEN nll[1] ELSE nll[2]],
                         ver |-> z.ver])
         ELSE /\ loss' = nll
              /\ observation' = Append(observation,
                        [values |-> [k \in {"log_likelihood"} |-> nll[1]],
                         ver |-> z.ver])
    /\ trace' = Append(trace, "report")
    /\ pc' = "uc_cleargrads"
    /\ UNCHANGED <<args, world, setupVars, params, grads, iteration, iterVars,
                   trigVars, batch, z, nll, fileVars, calls, pre_params>>
    /\ UNCHANGED flowVars

\* lines 57 and 58 swapped: backward first, then the gradients cleared
UcClearGrads_Late ==
    /\ pc = "uc_cleargrads"
    /\ grads' = [state |-> "cleared", finite |-> TRUE, at |-> params.ver]
    /\ trace' = trace \o <<"backward", "cleargrads">>
    /\ pc' = "uc_update"
    /\ UNCHANGED <<args, world, setupVars, params, iteration, iterVars, trigVars,
                   coreVars, fileVars, calls, pre_params>>
    /\ UNCHANGED flowVars

\* line 57: self.model.cleargrads()
UcClearGrads ==
    /\ pc = "uc_cleargrads"
    /\ grads' = [state |-> "cleared", finite |-> TRUE, at |-> params.ver]
    /\ trace' = Append(trace, "cleargrads")
    /\ pc' = "uc_backward"
    /\ UNCHANGED <<args, world, setupVars, params, iteration, iterVars, trigVars,
                   coreVars, fileVars, calls, pre_params>>
    /\ UNCHANGED flowVars

\* line 58: loss.backward() adds the loss's gradient to the parameters' gradients
UcBackward ==
    /\ pc = "uc_backward"
    /\ grads' = [state |-> IF grads.state \in {"none", "cleared"}
                             THEN "computed" ELSE "accumulated",
                 finite |-> IsFinite(loss[1])
                            /\ (grads.state \in {"none", "cleared"} \/ grads.finite),
                 at |-> z.ver]
    /\ trace' = Append(trace, "backward")
    /\ pc' = "uc_update"
    /\ UNCHANGED <<args, world, setupVars, params, iteration, iterVars, trigVars,
                   coreVars, fileVars, calls, pre_params>>
    /\ UNCHANGED flowVars

\* line 59: optimizer.update(); update_core returns and the updater counts the iteration
UcUpdate ==
    /\ pc = "uc_update"
    /\ params' = OptimizerUpdate(params, grads)
    /\ iteration' = iteration + 1
    /\ trace' = Append(trace, "update")
    /\ batch' = NoBatch
    /\ z' = NoZ
    /\ nll' = NoNll
    /\ loss' = None
    /\ pc' = "extensions"
    /\ UNCHANGED <<args, world, setupVars, grads, iterVars, trigVars, observation,
                   fileVars, calls, pre_params>>
    /\ UNCHANGED flowVars

\* ------------------------------------------------------------------ extensions
\* the snapshot under trigger (save_epochs, 'iteration')
RunExtensions_IterationTrigger ==
    /\ pc = "extensions"
    /\ snap_prev' = EpochDetail
    /\ snapshots' = IF ((iteration - 1) \div save_epochs) # (iteration \div save_epochs)
                      THEN Append(snapshots, TrainerState(EpochDetail))
                      ELSE snapshots
    /\ pc' = "stop_check"
    /\ UNCHANGED <<args, world, setupVars, params, grads, iteration, iterVars,
                   stop_prev, coreVars, final_file, snapshot_read, ghostVars>>
    /\ UNCHANGED flowVars

\* line 148: extensions.snapshot() under trigger (save_epochs, 'epoch')
RunExtensions ==
    /\ pc = "extensions"
    /\ snap_prev' = EpochDetail
    /\ snapshots' = IF Fires(snap_prev, EpochDetail, save_epochs)
                      THEN Append(snapshots, TrainerState(EpochDetail))
                      ELSE snapshots
    /\ pc' = "stop_check"
    /\ UNCHANGED <<args, world, setupVars, params, grads, iteration, iterVars,
                   stop_prev, coreVars, final_file, snapshot_read, ghostVars>>
    /\ UNCHANGED flowVars

\* line 158: save_npz('graph-nvp-final.npz', model)
FinalSave ==
    /\ pc = "final_save"
    /\ final_file' = Append(final_file, [params |-> params, iteration |-> iteration,
                                         calls |-> calls])
    /\ pc' = "done"
    /\ UNCHANGED <<args, world, setupVars, params, grads, iteration, iterVars,
                   trigVars, coreVars, snapshots, snapshot_read, ghostVars>>
    /\ UNCHANGED flowVars

Next ==
    \/ SelectDataset
    \/ LoadDataset
    \/ WrapDataset
    \/ SplitDataset
    \/ BuildModel
    \/ MakeSaveDir
    \/ SaveHyperparams
    \/ SetupTrainer
    \/ LoadParams
    \/ StopCheck
    \/ UcNext
    \/ UcForward
    \/ UcLogProb
    \/ UcReport
    \/ UcClearGrads
    \/ UcBackward
    \/ UcUpdate
    \/ RunExtensions
    \/ FinalSave

Spec == Init /\ [][Next]_vars

\* ------------------------------------------------------------------ coupling flow
\* The flow of GraphNvpModel, on one flattened (x, adj) tensor of NCoords
\* entries.  Numbers are fixed-point, Precision steps per unit, and every
\* product is rounded to the nearest step, as machine arithmetic rounds.

\* a / b rounded to the nearest integer, b > 0
RoundDiv(a, b) == (a + b \div 2) \div b

\* the rounded product of two fixed-point numbers
FxMul(a, f) == RoundDiv(a * f, Precision)

Clamp(v, lo, hi) == IF v < lo THEN lo ELSE IF v > hi THEN hi ELSE v

\* exp(s) for |s| <= 1/2, to third order
ExpFx(s) ==
    LET s2 == RoundDiv(s * s, 2 * Precision)
        s3 == RoundDiv(s2 * s, 3 * Precision)
    IN Precision + s + s2 + s3

\* exp(-s), the rounded reciprocal of exp(s)
ExpNegFx(s) == RoundDiv(Precision * Precision, ExpFx(s))

\* The masks rotate with the layer index: layer l transforms one entry.
ActiveOf(l) == ((l - 1) % NCoords) + 1

RECURSIVE PassiveSumFrom(_, _, _)
PassiveSumFrom(h, act, i) ==
    IF i > Len(h) THEN 0
    ELSE (IF i = act THEN 0 ELSE h[i]) + PassiveSumFrom(h, act, i + 1)

\* the sum of the passive subset
PassiveSum(h, act) == PassiveSumFrom(h, act, 1)

\* s = net(passive): zero in additive-only mode
ScaleNet(w, h, act) ==
    IF flow_additive THEN 0
    ELSE Clamp(w.u * RoundDiv(PassiveSum(h, act), 2),
               0 - (Precision \div 2), Precision \div 2)

\* t = net(passive)
ShiftNet(w, h, act) == w.w * PassiveSum(h, act) + Precision \div 4

LayerWeights == [u : {0 - 1, 0, 1}, w : {0, 1}]

\* active' = active * exp(s) + t; the passive subset passes through
ForwardLayer(h, l) ==
    LET act == ActiveOf(l)
        sc == ScaleNet(flow_net[l], h, act)
        sh == ShiftNet(flow_net[l], h, act)
    IN [h EXCEPT ![act] = FxMul(h[act], ExpFx(sc)) + sh]

\* the inverse with the shift added back instead of subtracted
InverseLayer_PlusShift(h, l) ==
    LET act == ActiveOf(l)
        sc == ScaleNet(flow_net[l], h, act)
        sh == ShiftNet(flow_net[l], h, act)
    IN [h EXCEPT ![act] = FxMul(h[act] + sh, ExpNegFx(sc))]

\* active = (active' - t) * exp(-s)
InverseLayer(h, l) ==
    LET act == ActiveOf(l)
        sc == ScaleNet(flow_net[l], h, act)
        sh == ShiftNet(flow_net[l], h, act)
    IN [h EXCEPT ![act] = FxMul(h[act] - sh, ExpNegFx(sc))]

\* No run of train() is in progress.
TrainIdle ==
    /\ args = [data_name |-> "qm9", batch_size |-> 1, max_epochs |-> 1,
               save_epochs |-> 0 - 1, load_params |-> 0, load_snapshot |-> 1]
    /\ world = [dataset_len |-> DatasetLen, val_ids |-> <<>>]
    /\ pc = "flow"
    /\ transform_fn = "unbound"
    /\ valid_idx = <<>>
    /\ dataset_loaded = FALSE
    /\ train_set = <<>>
    /\ test_set = <<>>
    /\ model_built = FALSE
    /\ save_dir = FALSE
    /\ hyper_written = FALSE
    /\ save_epochs = 0
    /\ params = FreshParams
    /\ grads = NoGrads
    /\ iteration = 0
    /\ epoch = 0
    /\ position = 0
    /\ is_new_epoch = FALSE
    /\ remaining = {}
    /\ stop_prev = 0
    /\ snap_prev = 0
    /\ batch = NoBatch
    /\ z = NoZ
    /\ nll = NoNll
    /\ loss = None
    /\ observation = <<>>
    /\ snapshots = <<>>
    /\ final_file = <<>>
    /\ snapshot_read = FALSE
    /\ trace = <<>>
    /\ calls = 0
    /\ pre_params = FreshParams

\* A valid tensor (entries 0 or 1) and any weights for the stack.
FlowInit ==
    /\ TrainIdle
    /\ flow_pc = "forward"
    /\ flow_x0 \in [1..NCoords -> {0, Precision}]
    /\ flow_h = flow_x0
    /\ flow_layer = 1
    /\ flow_net \in [1..NLayers -> LayerWeights]
    /\ flow_additive \in BOOLEAN

\* forward(adj, x): the layers in order
CouplingForward ==
    /\ flow_pc = "forward"
    /\ flow_h' = ForwardLayer(flow_h, flow_layer)
    /\ IF flow_layer = NLayers
         THEN flow_pc' = "inverse" /\ UNCHANGED flow_layer
         ELSE flow_layer' = flow_layer + 1 /\ UNCHANGED flow_pc
    /\ UNCHANGED <<flow_x0, flow_net, flow_additive, trainVars>>

\* inverse(z): the layers in reverse order
CouplingInverse ==
    /\ flow_pc = "inverse"
    /\ flow_h' = InverseLayer(flow_h, flow_layer)
    /\ IF flow_layer = 1
         THEN flow_pc' = "done" /\ UNCHANGED flow_layer
         ELSE flow_layer' = flow_layer - 1 /\ UNCHANGED flow_pc
    /\ UNCHANGED <<flow_x0, flow_net, flow_additive, trainVars>>

FlowNext ==
    \/ CouplingForward
    \/ CouplingInverse

FlowSpec == FlowInit /\ [][FlowNext]_vars

\* ------------------------------------------------------------------ properties
ExpectedSteps ==
    <<"next", "forward", "log_prob", "report", "cleargrads", "backward", "update">>

\* pc inside update_core, after its first step
InCall == pc \in {"uc_forward", "uc_log_prob", "uc_report", "uc_cleargrads",
                  "uc_backward", "uc_update"}

\* pc inside update_core once the loss has been computed and reported
AfterReport == pc \in {"uc_cleargrads", "uc_backward", "uc_update"}

IsPrefix(s, t) == Len(s) <= Len(t) /\ s = SubSeq(t, 1, Len(s))

KnownName == args.data_name \in {"qm9", "zinc250k"}

\* updater.iteration when Trainer.run() starts
StartIteration ==
    IF args.load_params = 1 THEN SnapshotAt(args.load_snapshot).iteration ELSE 0

\* C1: in every update_core call the steps run in the order next, forward,
\* log_prob, (report,) cleargrads, backward, optimizer update, each exactly
\* once; the parameters keep their value of the call's start until the final
\* step, which applies exactly one update.
C1_StepOrder ==
    /\ calls > 0 => IsPrefix(trace, ExpectedSteps)
    /\ InCall => /\ params = pre_params
                 /\ Len(trace) < Len(ExpectedSteps)
    /\ (calls > 0 /\ ~InCall /\ pc # "uc_next") =>
          /\ trace = ExpectedSteps
          /\ params.ver = pre_params.ver + 1
    /\ pc = "uc_update" => grads.state = "computed" /\ grads.at = pre_params.ver

C1_Witness ==
    /\ pc = "extensions"
    /\ calls = 2
    /\ trace = ExpectedSteps
    /\ params.ver = pre_params.ver + 1

\* C2: every update_core call emits exactly one record, holding log_likelihood,
\* nll_x and nll_adj, whose values are the ones computed in this call from the
\* parameters as they were before the call's optimizer step.
C2_OneRecord ==
    /\ InCall => Len(observation) <= 1
    /\ (AfterReport \/ pc = "extensions") =>
          /\ Len(observation) = 1
          /\ DOMAIN observation[1].values = {"log_likelihood", "nll_x", "nll_adj"}
          /\ observation[1].ver = pre_params.ver
    /\ AfterReport =>
          /\ observation[1].values["nll_x"] = nll[1]
          /\ observation[1].values["nll_adj"] = nll[2]
          /\ observation[1].values["log_likelihood"] = loss[1]
          /\ z.ver = params.ver
    /\ pc = "extensions" => params.ver = observation[1].ver + 1

C2_Witness ==
    /\ pc = "extensions"
    /\ calls = 2
    /\ Len(observation) = 1
    /\ observation[1].ver = 1
    /\ params.ver = 2

\* C3: the two-term branch is the one taken: the loss is the single value
\* (nll_x + nll_adj)/2, so 2*loss = nll_x + nll_adj for finite terms (and the
\* loss is non-finite when a term is), and that value is the one reported as
\* log_likelihood and the one backpropagated.
C3_TwoTermLoss ==
    AfterReport =>
        /\ Len(loss) = 1
        /\ "nll_adj" \in DOMAIN observation[Len(observation)].values
        /\ observation[Len(observation)].values["log_likelihood"] = loss[1]
        /\ IF IsFinite(nll[1]) /\ IsFinite(nll[2])
             THEN /\ IsFinite(loss[1])
                  /\ FEq(FMul(loss[1], Fin(2, 1)), FAdd(nll[1], nll[2]))
             ELSE ~IsFinite(loss[1])
        /\ pc = "uc_update" => grads.finite = IsFinite(loss[1])

C3_Witness ==
    /\ pc = "uc_update"
    /\ nll = <<Fin(2, 1), Fin(3, 1)>>
    /\ FEq(loss[1], Fin(5, 2))
    /\ FEq(observation[1].values["log_likelihood"], Fin(5, 2))

\* A non-finite log-determinant or negative log-likelihood was computed in the
\* current (or just finished) update_core call.
NonFiniteSeen ==
    \/ InCall /\ pc # "uc_forward" /\ ~(z.ldj_x /\ z.ldj_adj)
    \/ (AfterReport \/ pc = "extensions")
         /\ \E i \in DOMAIN observation :
               ~IsFinite(observation[i].values["log_likelihood"])

\* C4: when the log-determinant or the negative log-likelihood of a call is
\* non-finite, the call performs no backward pass and no optimizer update and
\* the parameters stay as they were before the call.
C4_NonFiniteAborts ==
    NonFiniteSeen =>
        /\ "backward" \notin Range(trace)
        /\ "update" \notin Range(trace)
        /\ params = pre_params

\* C5: with a dataset name other than qm9 and zinc250k, the run fails before
\* the dataset file is loaded, the model is constructed, the save directory or
\* the hyperparameters file is created, or update_core is called.
C5_UnknownNameFailsFast ==
    ~KnownName =>
        /\ ~dataset_loaded
        /\ ~model_built
        /\ ~save_dir
        /\ ~hyper_written
        /\ calls = 0

\* C6: every snapshot is written at an epoch boundary, after an update_core
\* call has returned and before the next starts: it holds the parameters after
\* a whole number of completed updates, never those of a half-finished step.
C6_SnapshotBetweenUpdates ==
    \A i \in DOMAIN snapshots :
        /\ snapshots[i].is_new_epoch
        /\ snapshots[i].step = ExpectedSteps
        /\ snapshots[i].calls >= 1
        /\ snapshots[i].iteration = StartIteration + snapshots[i].calls
        /\ snapshots[i].params.ver = snapshots[i].iteration
        /\ InCall => snapshots[i].calls < calls

C6_Witness ==
    /\ Len(snapshots) = 1
    /\ pc = "uc_backward"
    /\ snapshots[1].is_new_epoch
    /\ snapshots[1].epoch = 1
    /\ snapshots[1].calls = calls - 1

\* train_iter.epoch when Trainer.run() starts
StartEpoch == IF args.load_params = 1 THEN args.load_snapshot ELSE 0

\* C7: a snapshot is written exactly on completing each epoch of the run whose
\* number is a multiple of save_epochs (-1 standing for max_epochs); a run that
\* starts below max_epochs ends at epoch max_epochs; graph-nvp-final.npz is
\* written once, after the loop, with the parameters of the last update, and no
\* update_core call follows it.
C7_SnapshotCadence ==
    LET se == IF args.save_epochs = 0 - 1 THEN args.max_epochs ELSE args.save_epochs
        due == {e \in (StartEpoch + 1)..epoch : e % se = 0}
        n == Len(train_set)
        b == args.batch_size
    IN /\ pc \in {"stop_check", "final_save", "done"} =>
             /\ {snapshots[i].epoch : i \in DOMAIN snapshots} = due
             /\ Len(snapshots) = Cardinality(due)
       /\ \A i \in DOMAIN snapshots :
             /\ snapshots[i].epoch * n <= snapshots[i].iteration * b
             /\ snapshots[i].iteration * b < snapshots[i].epoch * n + b
             /\ \A j \in DOMAIN snapshots : i < j => snapshots[i].epoch < snapshots[j].epoch
       /\ (pc \in {"final_save", "done"} /\ StartEpoch < args.max_epochs) =>
             epoch = args.max_epochs
       /\ final_file # <<>> => pc = "done"
       /\ pc = "done" =>
             /\ Len(final_file) = 1
             /\ final_file[1].params = params
             /\ final_file[1].iteration = iteration
             /\ final_file[1].calls = calls
             /\ ~InCall

C7_Witness ==
    /\ pc = "done"
    /\ args.load_params = 0
    /\ args.save_epochs = 0 - 1
    /\ args.max_epochs = 2
    /\ Len(snapshots) = 1
    /\ snapshots[1].epoch = 2
    /\ Len(final_file) = 1
    /\ final_file[1].params.ver = iteration

\* C8: with load_params == 1 the parameters and the epoch/iteration counters
\* are those of the snapshot before the first update_core call, and the run
\* counts on from them; otherwise no snapshot is read and the first call starts
\* from fresh parameters and zero counters.
C8_Resume ==
    LET s == SnapshotAt(args.load_snapshot)
        beforeFirst == pc \in {"stop_check", "uc_next"} /\ calls = 0
        running == pc \in {"stop_check", "uc_next", "extensions", "final_save", "done"}
                   \/ InCall
    IN IF args.load_params = 1
         THEN /\ running => snapshot_read
              /\ beforeFirst =>
                    /\ params = s.params
                    /\ iteration = s.iteration
                    /\ epoch = s.epoch
                    /\ position = s.position
              /\ running =>
                    /\ iteration = s.iteration + (IF InCall THEN calls - 1 ELSE calls)
                    /\ epoch >= s.epoch
                    /\ params.ver = s.params.ver + (iteration - s.iteration)
              /\ (InCall /\ calls = 1) => pre_params = s.params
         ELSE /\ ~snapshot_read
              /\ beforeFirst => params = FreshParams /\ iteration = 0 /\ epoch = 0
              /\ (InCall /\ calls = 1) => pre_params = FreshParams
              /\ running => iteration = (IF InCall THEN calls - 1 ELSE calls)

C8_Witness ==
    /\ args.load_params = 1
    /\ args.load_snapshot = 1
    /\ args.max_epochs = 2
    /\ snapshot_read
    /\ pc = "uc_forward"
    /\ calls = 1
    /\ pre_params = SnapshotAt(1).params
    /\ iteration = SnapshotAt(1).iteration

\* C10: with a non-empty list of validation indices, the split puts every
\* dataset index in exactly one subset: train is the indices not in the list,
\* test is the list, and no batch of update_core holds a validation example.
C10_SplitPartition ==
    LET all == 0..(world.dataset_len - 1)
        built == pc \notin {"select", "load", "transform", "split", "failed"}
    IN (built /\ Len(valid_idx) > 0) =>
          /\ Range(train_set) = all \ Range(valid_idx)
          /\ Range(test_set) = Range(valid_idx)
          /\ Range(train_set) \cap Range(test_set) = {}
          /\ Len(train_set) + Len(test_set) = world.dataset_len
          /\ batch \subseteq Range(train_set)
          /\ batch \cap Range(valid_idx) = {}
          /\ InCall => Cardinality(batch) >= 1

C10_Witness ==
    /\ Len(valid_idx) > 0
    /\ pc = "uc_forward"
    /\ is_new_epoch
    /\ epoch = 2
    /\ Cardinality(batch) = 2
    /\ batch \cap Range(test_set) = {}

Abs(v) == IF v < 0 THEN 0 - v ELSE v

\* the round-trip tolerance: 1/64 of a unit
Tolerance == Precision \div 64

====
